---- MODULE Spec2Model ----
(***************************************************************************)
(* Model of the Z-Library download tooling: the metadata ledger            *)
(* (zlib_metadata.csv), the files and covers folders, the sequential file  *)
(* downloader with account rotation (download_files.py), the cover         *)
(* downloader (download_covers.py), the batch download manager             *)
(* (download_enhanced.py) and the scraper's save (zlibrary_scraper.py).    *)
(***************************************************************************)
EXTENDS Integers, Sequences, FiniteSets, TLC

(***************************************************************************)
(* Bounds of the model.  The configuration ships 3 accounts with a quota   *)
(* of 10 and rotation thresholds of 10 downloads / 3 failures; the model   *)
(* keeps the code and scales the numbers down.                             *)
(***************************************************************************)
NumBooks == 3
NumAccounts == 2
max_daily_downloads == 1
ROTATION_INTERVAL == 1
MAX_CONSECUTIVE_ERRORS == 2
max_retries == 2
max_concurrent == 2
MaxRuns == 2
max_pages == 2

(***************************************************************************)
(* Program constants.                                                      *)
(***************************************************************************)
MIN_FILE_SIZE == 1000
MAX_FILE_SIZE == 500 * 1024 * 1024
HTML_FLOOR == 10000
COVER_MIN_SIZE == 1000
MAX_FILENAME_LENGTH == 160

Books == 1..NumBooks
NoPath == <<>>
AccountIndexes == 0..(NumAccounts - 1)
NoSession == -1
Absent == -1

Emails == <<"your_email1@example.com", "your_email2@example.com",
            "your_email3@example.com", "your_email4@example.com">>

\* config.ZLIBRARY_ACCOUNTS, indexed from 0 as in the code.
ZLIBRARY_ACCOUNTS ==
    [i \in AccountIndexes |->
        [email |-> Emails[i + 1],
         max_daily_downloads |-> max_daily_downloads,
         daily_downloads |-> 0]]

(***************************************************************************)
(* Titles and file names.  A text is a sequence of one-character strings.  *)
(* Book b of the catalogue is titled "<letter of b> t"; the book with id    *)
(* NumBooks + b is another book, whose title is that of book b written     *)
(* with two blanks.  Every book has the author "x".                        *)
(***************************************************************************)
Letters == <<"a", "b", "c", "d", "e", "f", "g", "h">>
Catalogue == 1..(2 * NumBooks)
TitleOf(b) ==
    IF b \in Books THEN <<Letters[b], " ", "t">>
    ELSE <<Letters[b - NumBooks], " ", " ", "t">>
AuthorOf(b) == <<"x">>

INVALID_FILENAME_CHARS == {"<", ">", ":", "\"", "/", "\\", "|", "?", "*"}

\* str.lower on the characters the titles are made of.
Lower(c) ==
    CASE c = "A" -> "a" [] c = "B" -> "b" [] c = "T" -> "t" [] c = "X" -> "x"
      [] OTHER -> c
LowerText(text) == [i \in DOMAIN text |-> Lower(text[i])]

\* str.strip.
RECURSIVE Strip(_)
Strip(text) ==
    IF text = <<>> THEN <<>>
    ELSE IF Head(text) = " " THEN Strip(Tail(text))
    ELSE IF text[Len(text)] = " " THEN Strip(SubSeq(text, 1, Len(text) - 1))
    ELSE text

\* re.sub(r'\s+', ' ', text): a run of blanks becomes one blank.
RECURSIVE CollapseBlanks(_)
CollapseBlanks(text) ==
    IF Len(text) < 2 THEN text
    ELSE IF text[1] = " " /\ text[2] = " " THEN CollapseBlanks(Tail(text))
    ELSE <<text[1]>> \o CollapseBlanks(Tail(text))

\* text.rsplit(' ', 1)[0]: what stands before the last blank, the whole text
\* when it has no blank.
RECURSIVE BeforeLastBlank(_)
BeforeLastBlank(text) ==
    IF \A i \in DOMAIN text : text[i] # " " THEN text
    ELSE IF text[Len(text)] = " " THEN SubSeq(text, 1, Len(text) - 1)
    ELSE BeforeLastBlank(SubSeq(text, 1, Len(text) - 1))

\* EnhancedFileDownloader.sanitize_filename and CoverDownloader.sanitize_filename.
sanitize_filename(title, author) ==
    LET Valid(c) == c \notin INVALID_FILENAME_CHARS
        filename == CollapseBlanks(SelectSeq(title \o <<" ", "-", " ">> \o author, Valid))
    IN  Strip(IF Len(filename) > MAX_FILENAME_LENGTH
              THEN BeforeLastBlank(SubSeq(filename, 1, MAX_FILENAME_LENGTH))
              ELSE filename)

\* config.sanitize_filename: invalid characters become '_', the words are
\* joined by one blank, every blank becomes '-'.
config_sanitize_filename(filename) ==
    LET replaced == [i \in DOMAIN filename |->
                        IF filename[i] \in INVALID_FILENAME_CHARS THEN "_" ELSE filename[i]]
        joined == Strip(CollapseBlanks(replaced))
        dashed == [i \in DOMAIN joined |-> IF joined[i] = " " THEN "-" ELSE joined[i]]
    IN  IF Len(dashed) > MAX_FILENAME_LENGTH
        THEN SubSeq(dashed, 1, MAX_FILENAME_LENGTH)
        ELSE dashed

\* The names of the books' files, computed once.
FileNames == [b \in Catalogue |-> sanitize_filename(TitleOf(b), AuthorOf(b))]
ConfigFileNames ==
    [b \in Catalogue |-> config_sanitize_filename(TitleOf(b) \o <<" ", "-", " ">> \o AuthorOf(b))]

(***************************************************************************)
(* The ledger.  A row is what _extract_book_info produces; author,         *)
(* extension and the URLs are fixed per book and are read off the id.      *)
(***************************************************************************)
_extract_book_info(b) ==
    [id |-> b,
     title |-> TitleOf(b),
     cover_downloaded |-> "NO",
     file_downloaded |-> "NO",
     download_status |-> "PENDING",
     download_account |-> "",
     cover_path |-> NoPath,
     download_error |-> ""]

\* The path download_file writes a book's file to: files_dir joined with the
\* sanitized "title - author" and the extension.
filepath(b) == <<"files", FileNames[b], "pdf">>
coverpath(b) == <<"covers", FileNames[b], "jpg">>
\* The path config.get_file_path gives the batch manager for the same book:
\* config.sanitize_filename turns the blanks into dashes, so it is another file.
get_file_path(b) == <<"files", ConfigFileNames[b], "pdf">>
\* get_file_path(title, author, "jpg", "covers"), the batch manager's cover path.
get_cover_path(b) == <<"covers", ConfigFileNames[b], "jpg">>
FilePaths == {filepath(b) : b \in Books}
CoverPaths == {coverpath(b) : b \in Books}
BatchPaths == {get_file_path(b) : b \in Books} \cup {get_cover_path(b) : b \in Books}
Paths == FilePaths \cup CoverPaths \cup BatchPaths

\* df[df['file_downloaded'] != 'YES'] / df[df['cover_downloaded'] != 'YES'],
\* as the sequence of the ids of the rows kept, in row order.
RECURSIVE PendingIds(_, _)
PendingIds(df, column) ==
    IF df = <<>> THEN <<>>
    ELSE IF Head(df)[column] # "YES"
         THEN <<Head(df).id>> \o PendingIds(Tail(df), column)
         ELSE PendingIds(Tail(df), column)

RowsOf(df, book_id) == {i \in DOMAIN df : df[i].id = book_id}

(***************************************************************************)
(* Authentication.  get_authenticated_session either yields a session of   *)
(* the account asked for or None; which, the code cannot know beforehand.  *)
(* One call of get_available_session or rotate_account asks each account   *)
(* at most once, so the answers of one call are a function auth.           *)
(***************************************************************************)
AuthOutcomes == [AccountIndexes -> BOOLEAN]

\* The first i in 0..NumAccounts-1 other than cur that authenticates.
RECURSIVE TryOthers(_, _, _)
TryOthers(i, cur, auth) ==
    IF i >= NumAccounts THEN [session |-> NoSession, index |-> cur]
    ELSE IF i # cur /\ auth[i] THEN [session |-> i, index |-> i]
    ELSE TryOthers(i + 1, cur, auth)

\* A get_available_session whose loop over the other accounts returns the
\* session without the assignment to current_account_index of line 70.
get_available_session_keeping_index(cur, auth) ==
    IF auth[cur] THEN [session |-> cur, index |-> cur]
    ELSE [session |-> TryOthers(0, cur, auth).session, index |-> cur]

get_available_session(cur, auth) ==
    IF auth[cur] THEN [session |-> cur, index |-> cur]
    ELSE TryOthers(0, cur, auth)

\* for _ in range(len(ZLIBRARY_ACCOUNTS)): advance the index, try to log in.
RECURSIVE RotateLoop(_, _, _)
RotateLoop(idx, auth, left) ==
    IF left = 0 THEN [session |-> NoSession, index |-> idx, tried |-> <<>>]
    ELSE LET nxt == (idx + 1) % NumAccounts
         IN  IF auth[nxt] THEN [session |-> nxt, index |-> nxt, tried |-> <<nxt>>]
             ELSE [RotateLoop(nxt, auth, left - 1) EXCEPT !.tried = <<nxt>> \o @]

\* A rotation whose first login is that of the current account.
rotate_account_from_current(cur, auth) ==
    RotateLoop((cur + NumAccounts - 1) % NumAccounts, auth, NumAccounts)

\* The session and the index after rotate_account, and the accounts it asked
\* to log in, in the order of the calls of get_authenticated_session.
rotate_account(cur, auth) == RotateLoop(cur, auth, NumAccounts)

(***************************************************************************)
(* Transport.  What one session.get and the streaming of its body can do.  *)
(***************************************************************************)
FullSizes == {MIN_FILE_SIZE - 1, MIN_FILE_SIZE, MIN_FILE_SIZE + 1, MAX_FILE_SIZE + 1}
PartialSize == 0
Faults == {"none", "timeout", "stream_timeout", "stream_error"}
\* A complete, well-formed answer, and the ways an answer departs from it.
GoodResponse ==
    [status_code |-> 200, html |-> FALSE, content_length |-> HTML_FLOOR,
     size |-> MIN_FILE_SIZE + 1, fault |-> "none"]
Responses ==
    {[GoodResponse EXCEPT !.status_code = c] : c \in {200, 404, 500}}
    \cup {[GoodResponse EXCEPT !.html = TRUE, !.content_length = n] : n \in {0, HTML_FLOOR}}
    \cup {[GoodResponse EXCEPT !.size = n] : n \in FullSizes}
    \cup {[GoodResponse EXCEPT !.fault = f] : f \in Faults}

HttpStatus(code) ==
    CASE code = 404 -> "HTTP_404"
      [] code = 500 -> "HTTP_500"
      [] OTHER -> "HTTP_OTHER"

has_download_url(b) == TRUE
has_cover_url(b) == TRUE

\* A download_file without the os.path.exists test of lines 105-108.
download_file_refetching(disk, b, resp) ==
    LET path == filepath(b)
        ret(ok, st, d) == [success |-> ok, status |-> st, disk |-> d]
    IN  IF resp.fault = "timeout" THEN ret(FALSE, "TIMEOUT", disk)
        ELSE IF resp.status_code = 200 /\ resp.size >= MIN_FILE_SIZE /\ resp.size <= MAX_FILE_SIZE
        THEN ret(TRUE, "SUCCESS", [disk EXCEPT ![path] = resp.size])
        ELSE ret(FALSE, HttpStatus(resp.status_code), [disk EXCEPT ![path] = Absent])

\* download_file: the result pair and the files folder it leaves behind.
download_file(disk, b, resp) ==
    LET path == filepath(b)
        ret(ok, st, d) == [success |-> ok, status |-> st, disk |-> d]
    IN  IF ~has_download_url(b) THEN ret(FALSE, "NO_DOWNLOAD_URL", disk)
        ELSE IF disk[path] # Absent THEN ret(TRUE, "ALREADY_EXISTS", disk)
        ELSE IF resp.fault = "timeout" THEN ret(FALSE, "TIMEOUT", disk)
        ELSE IF resp.status_code = 200 THEN
            IF resp.html /\ resp.content_length < HTML_FLOOR
            THEN ret(FALSE, "HTML_ERROR_PAGE", disk)
            ELSE IF resp.fault = "stream_timeout"
            THEN ret(FALSE, "TIMEOUT", [disk EXCEPT ![path] = PartialSize])
            ELSE IF resp.fault = "stream_error"
            THEN ret(FALSE, "ERROR_ConnectionError", [disk EXCEPT ![path] = PartialSize])
            ELSE IF resp.size < MIN_FILE_SIZE
            THEN ret(FALSE, "FILE_TOO_SMALL", disk)
            ELSE IF resp.size > MAX_FILE_SIZE
            THEN ret(FALSE, "FILE_TOO_LARGE", disk)
            ELSE ret(TRUE, "SUCCESS", [disk EXCEPT ![path] = resp.size])
        ELSE ret(FALSE, HttpStatus(resp.status_code), disk)

(***************************************************************************)
(* Ledger updates: each reads the whole CSV, changes the rows of one id    *)
(* and writes the whole CSV back.                                          *)
(***************************************************************************)
update_file_status(df, book_id, status, account_email, error_msg) ==
    [i \in DOMAIN df |->
        IF df[i].id = book_id
        THEN [df[i] EXCEPT
                !.file_downloaded = status,
                !.download_account = IF account_email # "" THEN account_email ELSE @,
                !.download_error = IF error_msg # "" THEN error_msg ELSE @]
        ELSE df[i]]

update_cover_status(df, book_id, status, file_path) ==
    [i \in DOMAIN df |->
        IF df[i].id = book_id
        THEN [df[i] EXCEPT
                !.cover_downloaded = status,
                !.cover_path = IF file_path # NoPath THEN file_path ELSE @]
        ELSE df[i]]


\* EnhancedDownloadManager._update_download_status: every row of the CSV gets
\* the same value.
_update_download_status(df, download_type, ok) ==
    [i \in DOMAIN df |->
        IF download_type = "file"
        THEN IF ok
             THEN [df[i] EXCEPT !.file_downloaded = "YES", !.download_status = "SUCCESS"]
             ELSE [df[i] EXCEPT !.download_status = "FAILED"]
        ELSE IF ok
             THEN [df[i] EXCEPT !.cover_downloaded = "YES"]
             ELSE df[i]]

\* A retry body that records the answer that is no cover as FAILED.
download_cover_recording_failed(disk, b, resp, last) ==
    LET path == coverpath(b)
        ret(ok, st, d) == [success |-> ok, status |-> st, disk |-> d]
    IN  IF resp.fault \in {"timeout", "stream_timeout"}
        THEN ret(FALSE, IF last THEN "TIMEOUT" ELSE "", disk)
        ELSE IF resp.fault = "stream_error"
        THEN ret(FALSE, IF last THEN "ERROR" ELSE "", disk)
        ELSE IF resp.status_code = 200 /\ resp.size > COVER_MIN_SIZE
        THEN ret(TRUE, "YES", [disk EXCEPT ![path] = resp.size])
        ELSE ret(FALSE, IF last THEN "FAILED" ELSE "", disk)

\* One pass of the cover loop's retry body, lines 130-162: the status it hands to
\* update_cover_status ("" when it calls no update) and the covers folder after it.
download_cover(disk, b, resp, last) ==
    LET path == coverpath(b)
        ret(ok, st, d) == [success |-> ok, status |-> st, disk |-> d]
    IN  IF resp.fault \in {"timeout", "stream_timeout"}
        THEN ret(FALSE, IF last THEN "TIMEOUT" ELSE "", disk)
        ELSE IF resp.fault = "stream_error"
        THEN ret(FALSE, IF last THEN "ERROR" ELSE "", disk)
        ELSE IF resp.status_code = 200 /\ resp.size > COVER_MIN_SIZE
        THEN ret(TRUE, "YES", [disk EXCEPT ![path] = resp.size])
        ELSE ret(FALSE, "", disk)

\* download_specific_cover, lines 232-249, for a book found in the CSV: no look
\* at what is at the path, no look at the size of what came.
download_specific_cover(disk, b, resp) ==
    LET path == coverpath(b)
        ret(ok, d) == [success |-> ok, disk |-> d]
    IN  IF ~has_cover_url(b) THEN ret(FALSE, disk)
        ELSE IF resp.fault # "none" THEN ret(FALSE, disk)
        ELSE IF resp.status_code = 200 THEN ret(TRUE, [disk EXCEPT ![path] = resp.size])
        ELSE ret(FALSE, disk)

\* download_book_async, lines 52-83: the skip of an existing file, then the
\* zlibrary package's download, which either stores what the server sent and
\* answers true, answers false, or raises.
download_book_async(disk, b, resp) ==
    LET path == get_file_path(b)
        ret(ok, d) == [success |-> ok, disk |-> d]
    IN  IF disk[path] # Absent THEN ret(TRUE, disk)
        ELSE IF resp.fault = "timeout" THEN ret(FALSE, disk)
        ELSE IF resp.status_code # 200 THEN ret(FALSE, disk)
        ELSE IF resp.fault \in {"stream_timeout", "stream_error"}
        THEN ret(FALSE, [disk EXCEPT ![path] = PartialSize])
        ELSE ret(TRUE, [disk EXCEPT ![path] = resp.size])

\* download_cover_async, lines 97-134: the skip of an existing cover, then the
\* aiohttp request; the body is read whole before the file is opened.
download_cover_async(disk, b, resp) ==
    LET path == get_cover_path(b)
        ret(ok, d) == [success |-> ok, disk |-> d]
    IN  IF disk[path] # Absent THEN ret(TRUE, disk)
        ELSE IF ~has_cover_url(b) THEN ret(FALSE, disk)
        ELSE IF resp.fault = "timeout" THEN ret(FALSE, disk)
        ELSE IF resp.status_code # 200 THEN ret(FALSE, disk)
        ELSE IF resp.fault \in {"stream_timeout", "stream_error"} THEN ret(FALSE, disk)
        ELSE ret(TRUE, [disk EXCEPT ![path] = resp.size])

(***************************************************************************)
(* State.                                                                  *)
(***************************************************************************)
VARIABLES
    csv,                    \* zlib_metadata.csv: the rows, <<>> while the file does not exist
    disk,                   \* files and covers folders: path -> size, Absent when no file
    runs,                   \* how many programs were started so far
    overlap,                \* whether programs may run at the same time (fixed by Init)
    net,                    \* the answers the remote service may give (fixed by Init)
    logins,                 \* the ways the accounts' logins may go (fixed by Init)
    csv_io,                 \* whether pd.read_csv of the CSV can succeed, can fail (fixed by Init)
    site,                   \* the lists of cards the search pages may give (fixed by Init)
    accounts,               \* the ZLIBRARY_ACCOUNTS list config.py holds (fixed by Init)
    authenticated_cookies,  \* authenticated_cookies.json: the account whose session
                            \* cookies the file holds, NoSession while there is no file
    rcp_pc,                 \* run_all.py: where run_complete_process stands
    stats,                  \* CompleteZLibraryScraper.stats: started, completed per phase
    returned,               \* what the phases of run_complete_process returned so far
    scraping_status,        \* web mode: scraper_instance.scraping_status
    threads,                \* web mode: the scrape_background threads, [pc, page, listing]
    fd_pc,                  \* file downloader: where download_files_with_rotation stands
    pending_files,          \* ids of the rows filtered at the start of the run
    fd_pos,                 \* position of the loop in pending_files
    current_account_index,
    download_count,
    failure_count,
    session,                \* the account whose session the run holds, or NoSession
    attempt,
    success,
    status,
    fd_df,                  \* the DataFrame update_file_status has read
    success_count,
    failed_count,
    fd_result,              \* how the last run ended
    rotated_away,           \* history: the accounts the run left because failure_count
                            \* had reached MAX_CONSECUTIVE_ERRORS
    cd_pc,                  \* cover downloader: where download_covers_with_tracking stands
    pending_covers,
    cd_pos,
    cd_attempt,
    cd_status,              \* the status the loop hands to update_cover_status
    cd_df,                  \* the DataFrame update_cover_status has read
    cd_success_count,
    cd_failed_count,
    bd_pc,                  \* batch manager: where the batch download stands
    download_type,          \* 'file' (download_books_batch_async) or 'cover'
    semaphore,              \* the value asyncio.Semaphore(max_concurrent) was created with
    tasks                   \* its tasks, in creation order: [id, st]

fdVars == <<fd_pc, pending_files, fd_pos, current_account_index, download_count,
            failure_count, session, attempt, success, status, fd_df,
            success_count, failed_count, fd_result, rotated_away>>
cdVars == <<cd_pc, pending_covers, cd_pos, cd_attempt, cd_status, cd_df,
            cd_success_count, cd_failed_count>>
bdVars == <<bd_pc, download_type, semaphore, tasks>>
knobVars == <<overlap, net, logins, csv_io, site, accounts>>
rcpVars == <<rcp_pc, stats, returned>>
\* What no download program and no scrape writes.
webVars == <<scraping_status, threads>>
envVars == <<knobVars, authenticated_cookies, rcpVars, webVars>>
vars == <<csv, disk, runs, envVars, fdVars, cdVars, bdVars>>

\* EnhancedFileDownloader.__init__ and the locals of a run not yet started.
FdInit ==
    /\ fd_pc = "idle"
    /\ pending_files = <<>>
    /\ fd_pos = 0
    /\ current_account_index = 0
    /\ download_count = 0
    /\ failure_count = 0
    /\ session = NoSession
    /\ attempt = 0
    /\ success = FALSE
    /\ status = ""
    /\ fd_df = <<>>
    /\ success_count = 0
    /\ failed_count = 0
    /\ fd_result = "none"
    /\ rotated_away = {}

FdReset ==
    /\ fd_pc' = "idle"
    /\ pending_files' = <<>>
    /\ fd_pos' = 0
    /\ current_account_index' = 0
    /\ download_count' = 0
    /\ failure_count' = 0
    /\ session' = NoSession
    /\ attempt' = 0
    /\ success' = FALSE
    /\ status' = ""
    /\ fd_df' = <<>>
    /\ success_count' = 0
    /\ failed_count' = 0
    /\ fd_result' = "none"
    /\ rotated_away' = {}

CdInit ==
    /\ cd_pc = "idle"
    /\ pending_covers = <<>>
    /\ cd_pos = 0
    /\ cd_attempt = 0
    /\ cd_status = ""
    /\ cd_df = <<>>
    /\ cd_success_count = 0
    /\ cd_failed_count = 0

CdReset ==
    /\ cd_pc' = "idle"
    /\ pending_covers' = <<>>
    /\ cd_pos' = 0
    /\ cd_attempt' = 0
    /\ cd_status' = ""
    /\ cd_df' = <<>>
    /\ cd_success_count' = 0
    /\ cd_failed_count' = 0

BdInit ==
    /\ bd_pc = "idle"
    /\ download_type = ""
    /\ semaphore = 0
    /\ tasks = <<>>

BdReset ==
    /\ bd_pc' = "idle"
    /\ download_type' = ""
    /\ semaphore' = 0
    /\ tasks' = <<>>

\* CompleteZLibraryScraper.__init__: no phase started, none completed.
Phases == {"scraping", "covers", "files"}
NoStats == [ph \in Phases |-> [started |-> FALSE, completed |-> FALSE]]
\* "" while the step has not returned, then "True" or "False".
NothingReturned == [step \in {"prerequisites"} \cup Phases |-> ""]

\* A thread of web mode: idle (no thread), created (started, before line 90),
\* running (lines 90-162, page pages fetched), finished (line 163 done).
ThreadIds == 1..MaxRuns
NoThread == [pc |-> "idle", page |-> 0, listing |-> <<>>]

\* EnhancedZLibraryScraper.__init__ of scraper_instance, and no thread.
NoStatus == [is_running |-> FALSE, current_page |-> 0, books_found |-> 0]

WebInit ==
    /\ scraping_status = NoStatus
    /\ threads = [t \in ThreadIds |-> NoThread]

WebReset ==
    /\ scraping_status' = NoStatus
    /\ threads' = [t \in ThreadIds |-> NoThread]

RcpInit ==
    /\ rcp_pc = "idle"
    /\ stats = NoStats
    /\ returned = NothingReturned

RcpReset ==
    /\ rcp_pc' = "idle"
    /\ stats' = NoStats
    /\ returned' = NothingReturned

(***************************************************************************)
(* What the scraper collects from the search pages, and what it does with  *)
(* the rows before it saves them.                                          *)
(***************************************************************************)
ScrapedRows == [b \in Books |-> _extract_book_info(b)]

\* The card of book b as a page lists it under a title the other cards do
\* not have.
Retitled(b) == [_extract_book_info(b) EXCEPT !.title = <<Letters[b], " ", "u">>]

\* all_books when the search also lists the book whose title is that of the
\* first book with two blanks.
LookalikeListings == {ScrapedRows \o <<_extract_book_info(NumBooks + 1)>>}

\* df['title'].str.lower().str.strip() + '|' + the same of the author.
unique_id(row) == Strip(LowerText(row.title)) \o <<"|">> \o Strip(LowerText(AuthorOf(row.id)))

\* all_books when every book is listed once, or the first one on two pages.
CleanListings == {ScrapedRows, ScrapedRows \o <<ScrapedRows[1]>>}

\* all_books when the first book is listed twice, under two titles.
RetitledListings == {ScrapedRows \o <<Retitled(1)>>}

\* drop_duplicates(subset=['unique_id'], keep='first').
RECURSIVE remove_duplicates(_)
remove_duplicates(df) ==
    IF df = <<>> THEN <<>>
    ELSE LET front == remove_duplicates(SubSeq(df, 1, Len(df) - 1))
             last == df[Len(df)]
         IN  IF \E i \in DOMAIN front : unique_id(front[i]) = unique_id(last)
             THEN front
             ELSE Append(front, last)

\* merge_with_existing, which no program calls.
merge_with_existing(existing_df, new_df) ==
    IF existing_df = <<>> THEN new_df
    ELSE remove_duplicates(existing_df \o new_df)

save_metadata(df) == df

NoFiles == [p \in Paths |-> Absent]

\* The state after installation: no metadata yet, empty folders.
Init ==
    /\ csv = <<>>
    /\ disk = NoFiles
    /\ runs = 0
    /\ overlap = FALSE
    /\ net = Responses
    /\ logins = AuthOutcomes
    /\ csv_io = BOOLEAN
    /\ site = CleanListings
    /\ accounts = ZLIBRARY_ACCOUNTS
    /\ authenticated_cookies = NoSession
    /\ FdInit /\ CdInit /\ BdInit /\ RcpInit /\ WebInit

ProgramsIdle == fd_pc = "idle" /\ cd_pc = "idle" /\ bd_pc = "idle" /\ rcp_pc = "idle"
\* The web server is up from its first POST /scrape until its process ends.
WebIdle == scraping_status = NoStatus /\ \A t \in ThreadIds : threads[t].pc = "idle"
AllIdle == ProgramsIdle /\ WebIdle

\* A program is started: one at a time unless the behaviour allows overlap.
MayStart ==
    /\ overlap \/ AllIdle
    /\ runs < MaxRuns

(***************************************************************************)
(* The scraper: scrape_with_filters builds the rows of the books it found, *)
(* removes duplicates and saves them over the CSV.                         *)
(***************************************************************************)
\* The CSV after scrape_with_filters found all_books: df['title'] of the
\* DataFrame of no rows raises KeyError and nothing is saved.
scrape_with_filters(old_csv, all_books) ==
    IF all_books = <<>> THEN old_csv
    ELSE save_metadata(remove_duplicates(all_books))

Scrape ==
    /\ MayStart
    /\ AllIdle
    /\ runs' = runs + 1
    /\ \E all_books \in site : csv' = scrape_with_filters(csv, all_books)
    /\ UNCHANGED <<disk, envVars, fdVars, cdVars, bdVars>>

(***************************************************************************)
(* The login page of the web interface, action 'login': the account the    *)
(* form names is logged in and, when that gave a session, the session's    *)
(* cookies are saved to authenticated_cookies.json.                        *)
(***************************************************************************)
save_session_cookies(cookies, account) == account

login ==
    /\ MayStart
    /\ runs' = runs + 1
    /\ \E account_index \in AccountIndexes : \E auth \in logins :
         authenticated_cookies' =
             IF auth[account_index]
             THEN save_session_cookies(authenticated_cookies, account_index)
             ELSE authenticated_cookies
    /\ UNCHANGED <<csv, disk, knobVars, rcpVars, webVars, fdVars, cdVars, bdVars>>

(***************************************************************************)
(* download_files_with_rotation.                                           *)
(***************************************************************************)
CurrentBook == pending_files[fd_pos]

FdEnd(result) ==
    /\ fd_pc' = "done"
    /\ fd_result' = result

\* download_files_with_rotation up to its loop.
FdBegin ==
    /\ IF csv = <<>>
       THEN /\ FdEnd("no_csv")
            /\ UNCHANGED <<pending_files, fd_pos, current_account_index, session>>
       ELSE \E readable \in csv_io :
            LET pend == PendingIds(csv, "file_downloaded")
            IN  IF ~readable
                THEN /\ FdEnd("crashed")
                     /\ UNCHANGED <<pending_files, fd_pos, current_account_index, session>>
                ELSE IF pend = <<>>
                THEN /\ FdEnd("all_downloaded")
                     /\ UNCHANGED <<pending_files, fd_pos, current_account_index, session>>
                ELSE \E auth \in logins :
                       LET r == get_available_session(current_account_index, auth)
                       IN  /\ current_account_index' = r.index
                           /\ session' = r.session
                           /\ pending_files' = pend
                           /\ IF r.session = NoSession
                              THEN /\ FdEnd("no_account")
                                   /\ UNCHANGED fd_pos
                              ELSE /\ fd_pc' = "item"
                                   /\ fd_pos' = 1
                                   /\ UNCHANGED fd_result
    /\ UNCHANGED <<download_count, failure_count, attempt, success, status, fd_df,
                   success_count, failed_count, rotated_away>>

FD_Start ==
    /\ fd_pc = "idle"
    /\ MayStart
    /\ runs' = runs + 1
    /\ FdBegin
    /\ UNCHANGED <<csv, disk, envVars, cdVars, bdVars>>

\* A rotation check that writes the item off when no account logs in.
FD_Item_marking ==
    /\ fd_pc = "item"
    /\ IF download_count >= ROTATION_INTERVAL \/ failure_count >= MAX_CONSECUTIVE_ERRORS
       THEN \E auth \in logins :
              LET r == rotate_account(current_account_index, auth)
              IN  /\ download_count' = 0
                  /\ failure_count' = 0
                  /\ current_account_index' = r.index
                  /\ session' = r.session
                  /\ rotated_away' = IF failure_count >= MAX_CONSECUTIVE_ERRORS
                                     THEN rotated_away \cup {current_account_index}
                                     ELSE rotated_away
                  /\ IF r.session = NoSession
                     THEN /\ FdEnd("stopped")
                          /\ csv' = update_file_status(csv, CurrentBook, "FAILED", "",
                                                       "NO_ACCOUNT")
                     ELSE fd_pc' = "attempt" /\ UNCHANGED <<fd_result, csv>>
       ELSE /\ fd_pc' = "attempt"
            /\ UNCHANGED <<csv, download_count, failure_count, current_account_index,
                           session, fd_result, rotated_away>>
    /\ attempt' = 0
    /\ success' = FALSE
    /\ status' = ""
    /\ UNCHANGED <<disk, runs, envVars, pending_files, fd_pos, fd_df,
                   success_count, failed_count, cdVars, bdVars>>

\* A rotation check that looks at download_count alone.
FD_Item_rotating_on_downloads_only ==
    /\ fd_pc = "item"
    /\ IF download_count >= ROTATION_INTERVAL
       THEN \E auth \in logins :
              LET r == rotate_account(current_account_index, auth)
              IN  /\ download_count' = 0
                  /\ failure_count' = 0
                  /\ current_account_index' = r.index
                  /\ session' = r.session
                  /\ rotated_away' = IF failure_count >= MAX_CONSECUTIVE_ERRORS
                                     THEN rotated_away \cup {current_account_index}
                                     ELSE rotated_away
                  /\ IF r.session = NoSession
                     THEN FdEnd("stopped")
                     ELSE fd_pc' = "attempt" /\ UNCHANGED fd_result
       ELSE /\ fd_pc' = "attempt"
            /\ UNCHANGED <<download_count, failure_count, current_account_index,
                           session, fd_result, rotated_away>>
    /\ attempt' = 0
    /\ success' = FALSE
    /\ status' = ""
    /\ UNCHANGED <<csv, disk, runs, envVars, pending_files, fd_pos, fd_df,
                   success_count, failed_count, cdVars, bdVars>>

\* Top of the loop body: the rotation check, lines 197-203.
FD_Item ==
    /\ fd_pc = "item"
    /\ IF download_count >= ROTATION_INTERVAL \/ failure_count >= MAX_CONSECUTIVE_ERRORS
       THEN \E auth \in logins :
              LET r == rotate_account(current_account_index, auth)
              IN  /\ download_count' = 0
                  /\ failure_count' = 0
                  /\ current_account_index' = r.index
                  /\ session' = r.session
                  /\ rotated_away' = IF failure_count >= MAX_CONSECUTIVE_ERRORS
                                     THEN rotated_away \cup {current_account_index}
                                     ELSE rotated_away
                  /\ IF r.session = NoSession
                     THEN FdEnd("stopped")
                     ELSE fd_pc' = "attempt" /\ UNCHANGED fd_result
       ELSE /\ fd_pc' = "attempt"
            /\ UNCHANGED <<download_count, failure_count, current_account_index,
                           session, fd_result, rotated_away>>
    /\ attempt' = 0
    /\ success' = FALSE
    /\ status' = ""
    /\ UNCHANGED <<csv, disk, runs, envVars, pending_files, fd_pos, fd_df,
                   success_count, failed_count, cdVars, bdVars>>

\* A retry loop that goes on for as long as the download fails.
FD_Attempt_uncapped ==
    /\ fd_pc = "attempt"
    /\ \E resp \in net :
         LET r == download_file(disk, CurrentBook, resp)
         IN  /\ disk' = r.disk
             /\ success' = r.success
             /\ status' = r.status
             /\ IF r.success
                THEN fd_pc' = "read" /\ UNCHANGED attempt
                ELSE fd_pc' = "attempt" /\ attempt' = attempt + 1
    /\ UNCHANGED <<csv, runs, envVars, pending_files, fd_pos, current_account_index,
                   download_count, failure_count, session, fd_df, success_count,
                   failed_count, fd_result, rotated_away, cdVars, bdVars>>

\* One pass of the retry loop, lines 207-214.
FD_Attempt ==
    /\ fd_pc = "attempt"
    /\ \E resp \in net :
         LET r == download_file(disk, CurrentBook, resp)
         IN  /\ disk' = r.disk
             /\ success' = r.success
             /\ status' = r.status
             /\ IF r.success \/ attempt >= max_retries - 1
                THEN fd_pc' = "read" /\ UNCHANGED attempt
                ELSE fd_pc' = "attempt" /\ attempt' = attempt + 1
    /\ UNCHANGED <<csv, runs, envVars, pending_files, fd_pos, current_account_index,
                   download_count, failure_count, session, fd_df, success_count,
                   failed_count, fd_result, rotated_away, cdVars, bdVars>>

\* update_file_status, first half: pd.read_csv, which gives the rows or raises
\* (the function then logs the error and returns False: no rows, no write).
FD_UpdateRead ==
    /\ fd_pc = "read"
    /\ \E readable \in csv_io : fd_df' = IF readable THEN csv ELSE <<>>
    /\ fd_pc' = "write"
    /\ UNCHANGED <<csv, disk, runs, envVars, pending_files, fd_pos,
                   current_account_index, download_count, failure_count, session,
                   attempt, success, status, success_count, failed_count, fd_result,
                   rotated_away, cdVars, bdVars>>

\* An account_email that is always the first configured account's.
account_email_of_first_account == accounts[0].email

account_email == accounts[current_account_index].email

\* update_file_status, second half (df.to_csv when the id is in the frame), and the
\* rest of the loop body, lines 216-238.
FD_UpdateWrite ==
    /\ fd_pc = "write"
    /\ IF success
       THEN /\ csv' = IF RowsOf(fd_df, CurrentBook) # {}
                      THEN update_file_status(fd_df, CurrentBook, "YES", account_email, "")
                      ELSE csv
            /\ download_count' = download_count + 1
            /\ success_count' = success_count + 1
            /\ UNCHANGED <<failure_count, failed_count>>
       ELSE /\ csv' = IF RowsOf(fd_df, CurrentBook) # {}
                      THEN update_file_status(fd_df, CurrentBook, "FAILED", "", status)
                      ELSE csv
            /\ failure_count' = failure_count + 1
            /\ failed_count' = failed_count + 1
            /\ UNCHANGED <<download_count, success_count>>
    /\ fd_df' = <<>>
    /\ IF fd_pos = Len(pending_files)
       THEN FdEnd("completed") /\ UNCHANGED fd_pos
       ELSE fd_pc' = "item" /\ fd_pos' = fd_pos + 1 /\ UNCHANGED fd_result
    /\ UNCHANGED <<disk, runs, envVars, pending_files, current_account_index, session,
                   attempt, success, status, rotated_away, cdVars, bdVars>>

\* The exit status of python download_files.py: main calls sys.exit nowhere, so
\* it is 0 unless the run raised, and 1 (the interpreter's) when it did.
main(result) == IF result = "crashed" THEN 1 ELSE 0

\* The run returns and the process ends.
FD_Exit ==
    /\ fd_pc = "done"
    /\ rcp_pc = "idle"
    /\ FdReset
    /\ UNCHANGED <<csv, disk, runs, envVars, cdVars, bdVars>>

\* The process is killed in the middle of a run.
FD_Kill ==
    /\ fd_pc \in {"item", "attempt", "read", "write"}
    /\ FdReset
    /\ RcpReset
    /\ UNCHANGED <<csv, disk, runs, knobVars, authenticated_cookies, webVars,
                   cdVars, bdVars>>

(***************************************************************************)
(* download_covers_with_tracking.                                          *)
(***************************************************************************)
CurrentCover == pending_covers[cd_pos]

\* continue / the end of the loop body: the next row, or the summary.
CdAdvance ==
    /\ cd_attempt' = 0
    /\ cd_status' = ""
    /\ IF cd_pos = Len(pending_covers)
       THEN cd_pc' = "done" /\ UNCHANGED cd_pos
       ELSE cd_pc' = "item" /\ cd_pos' = cd_pos + 1

\* download_covers_with_tracking up to its loop.
CdBegin ==
    /\ LET pend == PendingIds(csv, "cover_downloaded")
       IN  IF pend = <<>>
           THEN cd_pc' = "done" /\ UNCHANGED <<pending_covers, cd_pos>>
           ELSE cd_pc' = "item" /\ pending_covers' = pend /\ cd_pos' = 1
    /\ UNCHANGED <<cd_attempt, cd_status, cd_df, cd_success_count, cd_failed_count>>

CD_Start ==
    /\ cd_pc = "idle"
    /\ MayStart
    /\ runs' = runs + 1
    /\ CdBegin
    /\ UNCHANGED <<csv, disk, envVars, fdVars, bdVars>>

\* Lines 102-126: the row without a cover URL, the cover that is already there.
CD_Item ==
    /\ cd_pc = "item"
    /\ IF ~has_cover_url(CurrentCover)
       THEN cd_status' = "NO_URL" /\ cd_pc' = "read"
       ELSE IF disk[coverpath(CurrentCover)] # Absent
       THEN cd_status' = "YES" /\ cd_pc' = "read"
       ELSE cd_status' = "" /\ cd_pc' = "attempt"
    /\ cd_attempt' = 0
    /\ UNCHANGED <<csv, disk, runs, envVars, pending_covers, cd_pos, cd_df,
                   cd_success_count, cd_failed_count, fdVars, bdVars>>

\* One pass of the retry loop, lines 130-162.
CD_Attempt ==
    /\ cd_pc = "attempt"
    /\ \E resp \in net :
         LET last == cd_attempt >= max_retries - 1
             r == download_cover(disk, CurrentCover, resp, last)
         IN  /\ disk' = r.disk
             /\ IF r.status # ""
                THEN /\ cd_status' = r.status
                     /\ cd_pc' = "read"
                     /\ UNCHANGED <<cd_attempt, cd_pos>>
                ELSE IF last
                THEN CdAdvance
                ELSE /\ cd_attempt' = cd_attempt + 1
                     /\ UNCHANGED <<cd_pc, cd_status, cd_pos>>
    /\ UNCHANGED <<csv, runs, envVars, pending_covers, cd_df, cd_success_count,
                   cd_failed_count, fdVars, bdVars>>

\* update_cover_status, first half: pd.read_csv, which gives the rows or raises.
CD_UpdateRead ==
    /\ cd_pc = "read"
    /\ \E readable \in csv_io : cd_df' = IF readable THEN csv ELSE <<>>
    /\ cd_pc' = "write"
    /\ UNCHANGED <<csv, disk, runs, envVars, pending_covers, cd_pos, cd_attempt,
                   cd_status, cd_success_count, cd_failed_count, fdVars, bdVars>>

\* The file_path argument the loop passes with each status.
CoverPathArg(b, st) ==
    CASE st = "YES" -> coverpath(b)
      [] st = "ERROR" -> <<"str(e)">>
      [] OTHER -> NoPath

\* update_cover_status, second half, and the counters of the loop.
CD_UpdateWrite ==
    /\ cd_pc = "write"
    /\ csv' = IF RowsOf(cd_df, CurrentCover) # {}
              THEN update_cover_status(cd_df, CurrentCover, cd_status,
                                       CoverPathArg(CurrentCover, cd_status))
              ELSE csv
    /\ IF cd_status = "YES"
       THEN cd_success_count' = cd_success_count + 1 /\ UNCHANGED cd_failed_count
       ELSE cd_failed_count' = cd_failed_count + 1 /\ UNCHANGED cd_success_count
    /\ cd_df' = <<>>
    /\ CdAdvance
    /\ UNCHANGED <<disk, runs, envVars, pending_covers, fdVars, bdVars>>

\* python download_covers.py specific <book_id>: the whole of
\* download_specific_cover, with the update_cover_status it ends in.  The id 0
\* stands for an id that df['id'] == book_id matches in no row.
CD_Specific ==
    /\ cd_pc = "idle"
    /\ MayStart
    /\ runs' = runs + 1
    /\ \E book_id \in 0..NumBooks : \E resp \in net : \E readable, rereadable \in csv_io :
         IF ~readable \/ RowsOf(csv, book_id) = {}
         THEN UNCHANGED <<csv, disk>>
         ELSE LET r == download_specific_cover(disk, book_id, resp)
              IN  /\ disk' = r.disk
                  /\ csv' = IF r.success /\ rereadable
                            THEN update_cover_status(csv, book_id, "YES", coverpath(book_id))
                            ELSE csv
    /\ UNCHANGED <<envVars, cdVars, fdVars, bdVars>>

CD_Exit ==
    /\ cd_pc = "done"
    /\ rcp_pc = "idle"
    /\ CdReset
    /\ UNCHANGED <<csv, disk, runs, envVars, fdVars, bdVars>>

CD_Kill ==
    /\ cd_pc \in {"item", "attempt", "read", "write"}
    /\ CdReset
    /\ RcpReset
    /\ UNCHANGED <<csv, disk, runs, knobVars, authenticated_cookies, webVars,
                   fdVars, bdVars>>

(***************************************************************************)
(* download_books_batch_async and download_covers_batch_async, called by   *)
(* the menu with the CSV it loaded.                                        *)
(***************************************************************************)
Running == {t \in DOMAIN tasks : tasks[t].st = "running"}
Waiting == {t \in DOMAIN tasks : tasks[t].st = "waiting"}
Succeeded == {t \in DOMAIN tasks : tasks[t].st = "true"}

\* main, lines 323-335: what the user may type at "Max concurrent downloads":
\* digits give int(...), anything else gives 5.
MaxConcurrentInputs == 0..max_concurrent

BD_Start ==
    /\ bd_pc = "idle"
    /\ MayStart
    /\ runs' = runs + 1
    /\ \E type \in {"file", "cover"} : \E typed \in MaxConcurrentInputs :
         LET pend == PendingIds(csv, IF type = "file" THEN "file_downloaded"
                                                      ELSE "cover_downloaded")
         IN  /\ download_type' = type
             /\ IF pend = <<>>
                THEN bd_pc' = "done" /\ UNCHANGED <<tasks, semaphore>>
                ELSE /\ bd_pc' = "gather"
                     /\ semaphore' = typed
                     /\ tasks' = [t \in DOMAIN pend |-> [id |-> pend[t], st |-> "waiting"]]
    /\ UNCHANGED <<csv, disk, envVars, fdVars, cdVars>>

\* async with semaphore: the tasks enter in creation order, while it has room.
BD_Acquire ==
    /\ bd_pc = "gather"
    /\ \E t \in Waiting :
         /\ \A u \in Waiting : t <= u
         /\ Cardinality(Running) < semaphore
         /\ tasks' = [tasks EXCEPT ![t].st = "running"]
    /\ UNCHANGED <<csv, disk, runs, envVars, bd_pc, download_type, semaphore, fdVars, cdVars>>

\* The download of one task ends and releases the semaphore.
BD_Download ==
    /\ bd_pc = "gather"
    /\ \E t \in Running : \E resp \in net :
         LET r == IF download_type = "file"
                  THEN download_book_async(disk, tasks[t].id, resp)
                  ELSE download_cover_async(disk, tasks[t].id, resp)
         IN  /\ disk' = r.disk
             /\ tasks' = [tasks EXCEPT ![t].st = IF r.success THEN "true" ELSE "false"]
    /\ UNCHANGED <<csv, runs, envVars, bd_pc, download_type, semaphore, fdVars, cdVars>>

\* gather has returned: lines 178-185 and 227-234.
BD_Update ==
    /\ bd_pc = "gather"
    /\ Running = {} /\ Waiting = {}
    /\ csv' = IF csv # <<>>
              THEN _update_download_status(csv, download_type, Cardinality(Succeeded) > 0)
              ELSE csv
    /\ bd_pc' = "done"
    /\ UNCHANGED <<disk, runs, envVars, download_type, semaphore, tasks, fdVars, cdVars>>

BD_Exit ==
    /\ bd_pc = "done"
    /\ BdReset
    /\ UNCHANGED <<csv, disk, runs, envVars, fdVars, cdVars>>

BD_Kill ==
    /\ bd_pc = "gather"
    /\ BdReset
    /\ UNCHANGED <<csv, disk, runs, envVars, fdVars, cdVars>>

(***************************************************************************)
(* run_all.py: run_complete_process, a step at a time.  The cover phase    *)
(* and the file phase are the loops of the two downloaders above, run in   *)
(* this process.                                                           *)
(***************************************************************************)
check_prerequisites(accts) ==
    ~(DOMAIN accts = {} \/ accts[0].email = "your_email1@example.com")

\* How Python prints the value a phase returned.
PyBool(ok) == IF ok THEN "True" ELSE "False"

\* A process that gives up when the cover phase returned False.
after_cover_download_returning(ok) == IF ok THEN "files" ELSE "done"

\* if not self.run_metadata_scraping(...): return False
after_metadata_scraping(ok) == IF ok THEN "covers" ELSE "done"

\* if not self.run_cover_download(): print(...), and the file phase follows.
after_cover_download(ok) == "files"

run_complete_process ==
    /\ CASE rcp_pc = "idle" ->
              \* check_prerequisites, then run_metadata_scraping
              /\ MayStart
              /\ runs' = runs + 1
              /\ IF ~check_prerequisites(accounts)
                 THEN /\ returned' = [returned EXCEPT !.prerequisites = "False"]
                      /\ rcp_pc' = "done"
                      /\ UNCHANGED <<csv, stats>>
                 ELSE \E all_books \in site :
                        LET ok == all_books # <<>>
                        IN  /\ csv' = scrape_with_filters(csv, all_books)
                            /\ stats' = [stats EXCEPT !.scraping =
                                            [started |-> TRUE, completed |-> ok]]
                            /\ returned' = [returned EXCEPT !.prerequisites = "True",
                                                            !.scraping = PyBool(ok)]
                            /\ rcp_pc' = after_metadata_scraping(ok)
              /\ UNCHANGED <<disk, fdVars, cdVars>>
         [] rcp_pc = "covers" ->
              \* run_cover_download up to the loop of the cover downloader
              /\ cd_pc = "idle"
              /\ stats' = [stats EXCEPT !.covers.started = TRUE]
              /\ \E readable \in csv_io :
                   IF csv = <<>> \/ ~readable
                   THEN /\ returned' = [returned EXCEPT !.covers = "False"]
                        /\ rcp_pc' = after_cover_download(FALSE)
                        /\ UNCHANGED cdVars
                   ELSE /\ CdBegin
                        /\ rcp_pc' = "covers_running"
                        /\ UNCHANGED returned
              /\ UNCHANGED <<csv, disk, runs, fdVars>>
         [] rcp_pc = "covers_running" ->
              \* download_covers_with_tracking returned: the stats, return True
              /\ cd_pc = "done"
              /\ CdReset
              /\ \E readable \in csv_io :
                   stats' = [stats EXCEPT !.covers.completed = readable /\ csv # <<>>]
              /\ returned' = [returned EXCEPT !.covers = "True"]
              /\ rcp_pc' = after_cover_download(TRUE)
              /\ UNCHANGED <<csv, disk, runs, fdVars>>
         [] rcp_pc = "files" ->
              \* run_file_download up to the loop of the file downloader
              /\ fd_pc = "idle"
              /\ stats' = [stats EXCEPT !.files.started = TRUE]
              /\ FdBegin
              /\ rcp_pc' = "files_running"
              /\ UNCHANGED <<csv, disk, runs, returned, cdVars>>
         [] rcp_pc = "files_running" ->
              \* download_files_with_rotation returned or raised
              /\ fd_pc = "done"
              /\ LET ok == fd_result \notin {"no_csv", "crashed"}
                 IN  /\ returned' = [returned EXCEPT !.files = PyBool(ok)]
                     /\ \E readable \in csv_io :
                          stats' = [stats EXCEPT !.files.completed =
                                       ok /\ readable /\ csv # <<>>]
              /\ FdReset
              /\ rcp_pc' = "done"
              /\ UNCHANGED <<csv, disk, runs, cdVars>>
         [] rcp_pc = "done" ->
              \* return: the process ends
              /\ RcpReset
              /\ UNCHANGED <<csv, disk, runs, fdVars, cdVars>>
    /\ UNCHANGED <<knobVars, authenticated_cookies, webVars, bdVars>>

(***************************************************************************)
(* Web mode of zlibrary_scraper.py: every POST /scrape starts a thread     *)
(* that runs scrape_with_filters on the one scraper_instance.  A thread    *)
(* fetches the pages of the listing the site gives it, NumBooks cards to   *)
(* a page.  A page's cards are counted in one step.                        *)
(***************************************************************************)
PageOf(listing, p) ==
    SubSeq(listing, (p - 1) * NumBooks + 1,
           IF Len(listing) < p * NumBooks THEN Len(listing) ELSE p * NumBooks)

\* all_books of a thread that has fetched the first p pages.
RECURSIVE BooksUpTo(_, _)
BooksUpTo(listing, p) ==
    IF p = 0 THEN <<>> ELSE BooksUpTo(listing, p - 1) \o PageOf(listing, p)

\* POST /scrape: threading.Thread(target=scrape_background).start()
scrape ==
    /\ overlap \/ ProgramsIdle
    /\ runs < MaxRuns
    /\ runs' = runs + 1
    /\ \E t \in ThreadIds :
         /\ threads[t].pc = "idle"
         /\ \A u \in ThreadIds : u < t => threads[u].pc # "idle"
         /\ threads' = [threads EXCEPT ![t].pc = "created"]
    /\ UNCHANGED <<csv, disk, knobVars, authenticated_cookies, rcpVars,
                   scraping_status, fdVars, cdVars, bdVars>>

\* Lines 89-94: the thread marks the scrape as running and zeroes the counters.
SW_Begin ==
    \E t \in ThreadIds : \E all_books \in site :
        /\ threads[t].pc = "created"
        /\ threads' = [threads EXCEPT ![t] =
                          [pc |-> "running", page |-> 0, listing |-> all_books]]
        /\ scraping_status' =
              [is_running |-> TRUE, current_page |-> 0, books_found |-> 0]
        /\ UNCHANGED <<csv, disk, runs, knobVars, authenticated_cookies, rcpVars,
                       fdVars, cdVars, bdVars>>

\* Lines 127-152: one turn of the loop over the pages.
SW_Page ==
    \E t \in ThreadIds :
        /\ threads[t].pc = "running"
        /\ threads[t].page < max_pages
        /\ threads' = [threads EXCEPT ![t].page = @ + 1]
        /\ scraping_status' =
              [scraping_status EXCEPT
                  !.current_page = threads[t].page + 1,
                  !.books_found = @ + Len(PageOf(threads[t].listing, threads[t].page + 1))]
        /\ UNCHANGED <<csv, disk, runs, knobVars, authenticated_cookies, rcpVars,
                       fdVars, cdVars, bdVars>>

\* Line 163, after the last page.
SW_Finish ==
    \E t \in ThreadIds :
        /\ threads[t].pc = "running"
        /\ threads[t].page = max_pages
        /\ threads' = [threads EXCEPT ![t].pc = "finished"]
        /\ scraping_status' = [scraping_status EXCEPT !.is_running = FALSE]
        /\ UNCHANGED <<csv, disk, runs, knobVars, authenticated_cookies, rcpVars,
                       fdVars, cdVars, bdVars>>

\* Lines 165-171: the rows are saved and the thread ends.
SW_Save ==
    \E t \in ThreadIds :
        /\ threads[t].pc = "finished"
        /\ csv' = scrape_with_filters(csv, BooksUpTo(threads[t].listing, max_pages))
        /\ threads' = [threads EXCEPT ![t] = NoThread]
        /\ UNCHANGED <<disk, runs, knobVars, authenticated_cookies, rcpVars,
                       scraping_status, fdVars, cdVars, bdVars>>

\* The web server is stopped while no thread is left.
SW_Exit ==
    /\ ~WebIdle
    /\ \A t \in ThreadIds : threads[t].pc = "idle"
    /\ WebReset
    /\ UNCHANGED <<csv, disk, runs, knobVars, authenticated_cookies, rcpVars,
                   fdVars, cdVars, bdVars>>

Next ==
    \/ Scrape
    \/ run_complete_process
    \/ scrape
    \/ SW_Begin
    \/ SW_Page
    \/ SW_Finish
    \/ SW_Save
    \/ SW_Exit
    \/ login
    \/ FD_Start
    \/ FD_Item
    \/ FD_Attempt
    \/ FD_UpdateRead
    \/ FD_UpdateWrite
    \/ FD_Exit
    \/ FD_Kill
    \/ CD_Start
    \/ CD_Item
    \/ CD_Attempt
    \/ CD_UpdateRead
    \/ CD_UpdateWrite
    \/ CD_Specific
    \/ CD_Exit
    \/ CD_Kill
    \/ BD_Start
    \/ BD_Acquire
    \/ BD_Download
    \/ BD_Update
    \/ BD_Exit
    \/ BD_Kill

Spec == Init /\ [][Next]_vars

(***************************************************************************)
(* A later day: the ledger and the files folder as an earlier sequential   *)
(* run left them.  That run went through the first k rows (it was killed   *)
(* or ran out of accounts after them) with the second account refusing to  *)
(* log in; a row it marked YES has its file, a row it marked FAILED timed  *)
(* out on every attempt.  One more program is then started.                *)
(***************************************************************************)
LeftRow(b, outcome) ==
    IF outcome = "YES"
    THEN [_extract_book_info(b) EXCEPT !.file_downloaded = "YES",
                                       !.download_account = Emails[1]]
    ELSE [_extract_book_info(b) EXCEPT !.file_downloaded = "FAILED",
                                       !.download_error = "TIMEOUT"]

InitResume ==
    /\ \E k \in 0..NumBooks : \E f \in [Books -> {"YES", "FAILED"}] :
         /\ csv = [b \in Books |-> IF b <= k THEN LeftRow(b, f[b])
                                             ELSE _extract_book_info(b)]
         /\ disk = [p \in Paths |->
                      IF \E b \in 1..k : p = filepath(b) /\ f[b] = "YES"
                      THEN MIN_FILE_SIZE ELSE Absent]
    /\ runs = MaxRuns - 1
    /\ overlap = FALSE
    /\ net = Responses
    /\ logins = AuthOutcomes
    /\ csv_io = {TRUE}
    /\ site = CleanListings
    /\ accounts = ZLIBRARY_ACCOUNTS
    /\ authenticated_cookies = NoSession
    /\ FdInit /\ CdInit /\ BdInit /\ RcpInit /\ WebInit

SpecResume == InitResume /\ [][Next]_vars

(***************************************************************************)
(* A scrape after downloads: the sequential file run had stored the files  *)
(* of the first kf books and the cover run the covers of the first kc      *)
(* books when scrape_with_filters saved fresh rows over the CSV.  One more *)
(* program is then started.                                                *)
(***************************************************************************)
InitRescrape ==
    /\ csv = save_metadata(ScrapedRows)
    /\ \E kf \in 0..NumBooks : \E kc \in 0..NumBooks :
         disk = [p \in Paths |->
                    IF \E b \in 1..kf : p = filepath(b) THEN GoodResponse.size
                    ELSE IF \E b \in 1..kc : p = coverpath(b) THEN GoodResponse.size
                    ELSE Absent]
    /\ runs = MaxRuns - 1
    /\ overlap = FALSE
    /\ net = Responses
    /\ logins = AuthOutcomes
    /\ csv_io = {TRUE}
    /\ site = CleanListings
    /\ accounts = ZLIBRARY_ACCOUNTS
    /\ authenticated_cookies = NoSession
    /\ FdInit /\ CdInit /\ BdInit /\ RcpInit /\ WebInit

SpecRescrape == InitRescrape /\ [][Next]_vars

(***************************************************************************)
(* The web interface and separate terminals start programs while others   *)
(* still run.  Here every fetch and every login succeeds, so that what     *)
(* happens is due to the programs alone.                                   *)
(***************************************************************************)
InitOverlap ==
    /\ csv = ScrapedRows
    /\ disk = NoFiles
    /\ runs = 0
    /\ overlap = TRUE
    /\ net = {GoodResponse}
    /\ logins = {[a \in AccountIndexes |-> TRUE]}
    /\ csv_io = {TRUE}
    /\ site = CleanListings
    /\ accounts = ZLIBRARY_ACCOUNTS
    /\ authenticated_cookies = NoSession
    /\ FdInit /\ CdInit /\ BdInit /\ RcpInit /\ WebInit

SpecOverlap == InitOverlap /\ [][Next]_vars

\* The search lists a book twice under two titles; every request for a file
\* or a cover is answered 404 or not at all, so that no path is ever written.
InitListing ==
    /\ csv = <<>>
    /\ disk = NoFiles
    /\ runs = 0
    /\ overlap = FALSE
    /\ net = {[GoodResponse EXCEPT !.status_code = 404],
              [GoodResponse EXCEPT !.fault = "timeout"]}
    /\ logins = {[a \in AccountIndexes |-> TRUE]}
    /\ csv_io = {TRUE}
    /\ site = RetitledListings
    /\ accounts = ZLIBRARY_ACCOUNTS
    /\ authenticated_cookies = NoSession
    /\ FdInit /\ CdInit /\ BdInit /\ RcpInit /\ WebInit

SpecListing == InitListing /\ [][Next]_vars

\* The search lists two books whose titles differ by a blank; the service is
\* healthy.
InitLookalike ==
    /\ csv = <<>>
    /\ disk = NoFiles
    /\ runs = 0
    /\ overlap = FALSE
    /\ net = {GoodResponse}
    /\ logins = {[a \in AccountIndexes |-> TRUE]}
    /\ csv_io = {TRUE}
    /\ site = LookalikeListings
    /\ accounts = ZLIBRARY_ACCOUNTS
    /\ authenticated_cookies = NoSession
    /\ FdInit /\ CdInit /\ BdInit /\ RcpInit /\ WebInit

SpecLookalike == InitLookalike /\ [][Next]_vars

\* config.py after the owner of the accounts entered the first address.
ConfiguredAccounts == [ZLIBRARY_ACCOUNTS EXCEPT ![0].email = "reader1@example.com"]

\* run_all.py on a new installation: config.py as shipped or with the first
\* address entered; the search may find nothing; the service is healthy; the
\* CSV may be unreadable at any read.
InitComplete ==
    /\ csv = <<>>
    /\ disk = NoFiles
    /\ runs = 0
    /\ overlap = FALSE
    /\ net = {GoodResponse}
    /\ logins = {[a \in AccountIndexes |-> TRUE]}
    /\ csv_io = BOOLEAN
    /\ site = {ScrapedRows, <<>>}
    /\ accounts \in {ZLIBRARY_ACCOUNTS, ConfiguredAccounts}
    /\ authenticated_cookies = NoSession
    /\ FdInit /\ CdInit /\ BdInit /\ RcpInit /\ WebInit

SpecComplete == InitComplete /\ [][Next]_vars

(***************************************************************************)
(* The event loop of the batch manager runs every task that is ready, a    *)
(* download ends (by its answer or by its timeout) and gather returns once *)
(* every task has ended; the loop of the file downloader goes on to its    *)
(* next statement.  A kill is never owed.                                  *)
(***************************************************************************)
SpecBatch ==
    /\ Init /\ [][Next]_vars
    /\ WF_vars(BD_Acquire) /\ WF_vars(BD_Download) /\ WF_vars(BD_Update)
    /\ WF_vars(FD_Item) /\ WF_vars(FD_Attempt)
    /\ WF_vars(FD_UpdateRead) /\ WF_vars(FD_UpdateWrite)

(***************************************************************************)
(* Properties.                                                             *)
(***************************************************************************)
Quota(a) == ZLIBRARY_ACCOUNTS[a].max_daily_downloads

\* The rows whose download the ledger attributes to account a.
Attributed(a) ==
    Cardinality({i \in DOMAIN csv :
                    /\ csv[i].file_downloaded = "YES"
                    /\ csv[i].download_account = ZLIBRARY_ACCOUNTS[a].email})

AllAtQuota == \A a \in AccountIndexes : Attributed(a) >= Quota(a)

\* C1: no account is credited with more downloads than its max_daily_downloads,
\* and once every account is at its quota the downloader holds no session for a
\* further attempt.
C1_QuotaRespected ==
    /\ \A a \in AccountIndexes : Attributed(a) <= Quota(a)
    /\ AllAtQuota => fd_pc # "attempt"

\* The size-bounds check of download_file, and that of the cover loop.
ValidFile(size) ==
    size # Absent /\ size > 0 /\ size >= MIN_FILE_SIZE /\ size <= MAX_FILE_SIZE
ValidCover(size) == size # Absent /\ size > COVER_MIN_SIZE

\* C2: a row marked YES has, at the path its downloader writes to, a file that
\* exists, is not empty and passes the size check.
C2_SucceededHasValidFile ==
    \A i \in DOMAIN csv :
        /\ csv[i].file_downloaded = "YES" =>
              \/ ValidFile(disk[filepath(csv[i].id)])
              \/ ValidFile(disk[get_file_path(csv[i].id)])
        /\ csv[i].cover_downloaded = "YES" => ValidCover(disk[coverpath(csv[i].id)])

FileDownloaderRuns == fd_pc # "idle" \/ (bd_pc # "idle" /\ download_type = "file")

\* C3: a run of the sequential or of the batch downloader lists no row that is
\* already YES among the rows it will fetch, and no step of the run changes any
\* column of such a row.
C3_SucceededRowsUntouched ==
    [][/\ fd_pc = "idle" /\ fd_pc' = "item" =>
            \A j \in DOMAIN pending_files' : \A i \in RowsOf(csv, pending_files'[j]) :
                csv[i].file_downloaded # "YES"
       /\ bd_pc = "idle" /\ bd_pc' = "gather" /\ download_type' = "file" =>
            \A t \in DOMAIN tasks' : \A i \in RowsOf(csv, tasks'[t].id) :
                csv[i].file_downloaded # "YES"
       /\ FileDownloaderRuns =>
            \A i \in DOMAIN csv :
                csv[i].file_downloaded = "YES" => i \in DOMAIN csv' /\ csv'[i] = csv[i]
      ]_vars

\* C4: the account selection made once failure_count has reached
\* MAX_CONSECUTIVE_ERRORS gives a session of another account, or none.
C4_RotationLeavesFailedAccount ==
    [][fd_pc = "item" /\ fd_pc' # "item" /\ failure_count >= MAX_CONSECUTIVE_ERRORS =>
            session' = NoSession \/ session' # session
      ]_vars

RowsMarked(ids) ==
    {j \in DOMAIN ids : \E i \in RowsOf(csv, ids[j]) : csv[i].file_downloaded = "YES"}

\* C5: at every moment of a run (so whenever it may be killed) the items that
\* have reached success so far are YES in the CSV: those the sequential run has
\* counted, and those whose batch task has returned true.
C5_ProgressPersistedAtAnyMoment ==
    /\ fd_pc \in {"item", "attempt", "read", "write", "done"} =>
          Cardinality(RowsMarked(pending_files)) >= success_count
    /\ bd_pc = "gather" /\ download_type = "file" =>
          \A t \in Succeeded : \A i \in RowsOf(csv, tasks[t].id) :
              csv[i].file_downloaded = "YES"

RECURSIVE SumQuota(_)
SumQuota(n) == IF n = 0 THEN 0 ELSE Quota(n - 1) + SumQuota(n - 1)
TotalQuota == SumQuota(NumAccounts)

\* C6: a run over more pending items than the quotas add up to, in which every
\* fetch succeeds, ends early with exactly as many items succeeded as the quotas
\* add up to.
C6_StopsAtTotalQuota ==
    /\ fd_pc = "done"
    /\ fd_result \in {"completed", "stopped"}
    /\ failed_count = 0
    /\ Len(pending_files) > TotalQuota
    => /\ success_count = TotalQuota
       /\ fd_result = "stopped"

ValidationReasons == {"FILE_TOO_SMALL", "FILE_TOO_LARGE", "HTML_ERROR_PAGE"}

\* C7: after an attempt that failed validation there is no further attempt for
\* the item, no file is left at its path, and the reason recorded for the item
\* is the validation reason.
C7_ValidationFailureIsFinal ==
    /\ fd_pc = "attempt" /\ attempt >= 1 => status \notin ValidationReasons
    /\ fd_pc \in {"read", "write"} /\ status \in ValidationReasons =>
          disk[filepath(CurrentBook)] = Absent

\* C8: no write to the CSV takes a row that was YES back to a status that is
\* not YES.
C8_TerminalNeverReverts ==
    [][\A i \in DOMAIN csv :
          /\ csv[i].file_downloaded = "YES" =>
                \E j \in DOMAIN csv' :
                    csv'[j].id = csv[i].id /\ csv'[j].file_downloaded = "YES"
          /\ csv[i].cover_downloaded = "YES" =>
                \E j \in DOMAIN csv' :
                    csv'[j].id = csv[i].id /\ csv'[j].cover_downloaded = "YES"
      ]_vars

\* C9: after a batch run a row of an item is YES only if the download of that
\* item returned true.
C9_StatusIsOwnOutcome ==
    bd_pc = "done" /\ download_type = "file" =>
        \A t \in DOMAIN tasks : \A i \in RowsOf(csv, tasks[t].id) :
            csv[i].file_downloaded = "YES" => tasks[t].st = "true"

\* C10: when update_file_status and update_cover_status run at the same time
\* for different ids both updates take effect: the one that returns last leaves
\* what the other wrote for the other id (the cover columns, the account the
\* file is credited to) in the CSV.
C10_ConcurrentUpdatesBothKept ==
    [][/\ fd_pc = "write" /\ fd_pc' # "write" =>
            \A i \in DOMAIN csv : csv[i].id # CurrentBook =>
                /\ csv'[i].cover_downloaded = csv[i].cover_downloaded
                /\ csv'[i].cover_path = csv[i].cover_path
       /\ cd_pc = "write" /\ cd_pc' # "write" =>
            \A i \in DOMAIN csv : csv[i].id # CurrentCover =>
                csv'[i].download_account = csv[i].download_account
      ]_vars

\* C11: when update_file_status has no row to write (the CSV could not be read,
\* or holds no row of the id) the run ends there, and neither success_count nor
\* download_count advances.
C11_LedgerFailureStopsRun ==
    [][fd_pc = "write" /\ fd_pc' \in {"item", "done"} /\ RowsOf(fd_df, CurrentBook) = {} =>
            /\ fd_pc' = "done"
            /\ success_count' = success_count
            /\ download_count' = download_count
      ]_vars

CoverOutcomes == {"YES", "NO_URL", "TIMEOUT", "ERROR"}

\* C12: every item a run has gone past has its outcome in the CSV: a cover row
\* is YES or carries a failure status, a file row is YES or FAILED with its
\* reason.
C12_EveryItemRecorded ==
    /\ cd_pc # "idle" =>
          \A j \in DOMAIN pending_covers : (j < cd_pos \/ cd_pc = "done") =>
              \A i \in RowsOf(csv, pending_covers[j]) :
                  csv[i].cover_downloaded \in CoverOutcomes
    /\ fd_pc # "idle" =>
          \A j \in DOMAIN pending_files :
              (j < fd_pos \/ (fd_pc = "done" /\ fd_result = "completed")) =>
                  \A i \in RowsOf(csv, pending_files[j]) :
                      \/ csv[i].file_downloaded = "YES"
                      \/ csv[i].file_downloaded = "FAILED" /\ csv[i].download_error # ""

\* C13: after an attempt that failed there is no file at the item's path, and an
\* attempt that answers ALREADY_EXISTS found a complete file; a batch cover
\* download that returned false left no file either.
C13_FailedAttemptLeavesNoFile ==
    /\ fd_pc \in {"attempt", "read", "write"} /\ status # "" /\ ~success =>
          disk[filepath(CurrentBook)] = Absent
    /\ fd_pc \in {"attempt", "read", "write"} /\ status = "ALREADY_EXISTS" =>
          ValidFile(disk[filepath(CurrentBook)])
    /\ bd_pc = "gather" /\ download_type = "cover" =>
          \A t \in DOMAIN tasks :
              tasks[t].st = "false" => disk[get_cover_path(tasks[t].id)] = Absent

C15_ExistingFilesKept ==
    [][\A p \in Paths : disk[p] # Absent => disk'[p] = disk[p]]_vars

\* C16: no further attempt follows an attempt that ended in a permanent outcome
\* (no download URL, HTTP 404).
C16_PermanentOutcomeNotRetried ==
    fd_pc = "attempt" /\ attempt >= 1 => status \notin {"NO_DOWNLOAD_URL", "HTTP_404"}

Transient == {"TIMEOUT", "HTTP_500", "ERROR_ConnectionError"}

\* C17: an attempt is never made beyond the max_retries-th of its item, and an
\* attempt that failed transiently (for a cover: that brought no file) before
\* the max_retries-th is followed by another attempt; this for the file loop
\* and the cover loop.
C17_TransientRetriedUpToMax ==
    [][/\ /\ fd_pc = "attempt" /\ fd_pc' \in {"attempt", "read"}
          /\ (attempt' # attempt \/ fd_pc' = "read")
          => /\ attempt + 1 <= max_retries
             /\ status' \in Transient /\ attempt + 1 < max_retries =>
                   fd_pc' = "attempt" /\ attempt' = attempt + 1
       /\ /\ cd_pc = "attempt" /\ cd_pc' # "idle"
          /\ (cd_attempt' # cd_attempt \/ cd_pc' # "attempt")
          => /\ cd_attempt + 1 <= max_retries
             /\ disk'[coverpath(CurrentCover)] = Absent /\ cd_attempt + 1 < max_retries =>
                   cd_pc' = "attempt" /\ cd_attempt' = cd_attempt + 1
      ]_vars

\* C17 witness: the last attempt allowed for a book is about to be made, after
\* one that timed out.
C17_Witness ==
    fd_pc = "attempt" /\ attempt = max_retries - 1 /\ status = "TIMEOUT"

\* The items of the run that no attempt was made for yet.
Unattempted(j) == j > fd_pos \/ (j = fd_pos /\ fd_pc = "item")

\* C18: no step of a sequential run changes the row of an item it has not
\* attempted, neither the step in which it stops for want of an account nor a
\* step after it: those rows stay as they were when the run began.
C18_UnattemptedRowsKept ==
    [][~overlap =>
          /\ fd_pc \in {"item", "attempt", "read", "write"} =>
                \A j \in DOMAIN pending_files : Unattempted(j) =>
                    \A i \in RowsOf(csv, pending_files[j]) :
                        i \in DOMAIN csv' /\ csv'[i] = csv[i]
          /\ fd_pc = "idle" /\ fd_pc' = "done" => csv' = csv
          /\ fd_pc = "done" /\ fd_result \in {"stopped", "no_account"} => csv' = csv
      ]_vars

\* C18 witness: a run has stopped at the rotation for want of an account, and
\* the item it stopped at is still NO.
C18_Witness ==
    /\ fd_pc = "done" /\ fd_result = "stopped"
    /\ \E i \in RowsOf(csv, CurrentBook) : csv[i].file_downloaded = "NO"

\* The exit code the specification gives a run by the way it ended.
ExitCodeWanted(result) ==
    CASE result \in {"completed", "all_downloaded"} -> 0
      [] result \in {"stopped", "no_account"} -> 1
      [] OTHER -> 2

\* C19: the process of the file downloader exits with 0 after a drained batch,
\* 1 after a stop for want of accounts, 2 when the CSV is missing or unreadable.
C19_ExitCodes ==
    fd_pc = "done" => main(fd_result) = ExitCodeWanted(fd_result)

\* C20: never more tasks of a batch are downloading than the limit the batch
\* was given, and a task that waits for the semaphore gets to download
\* (unless the process is killed first).
C20_BoundedAndStarted ==
    /\ [](Cardinality(Running) <= semaphore)
    /\ \A t \in 1..NumBooks :
          (t \in Waiting) ~> (t \in Running \/ bd_pc = "idle")

\* C21: every run ends: the loop of download_files_with_rotation reaches its
\* summary, and a batch download leaves gather, whatever limit was typed
\* (unless the process is killed first).
C21_EveryRunTerminates ==
    /\ (fd_pc \in {"item", "attempt", "read", "write"}) ~> (fd_pc \in {"done", "idle"})
    /\ (bd_pc = "gather") ~> (bd_pc # "gather")

\* C22: a run does not put on its list an item that an earlier run recorded
\* as failed for good: no row with file_downloaded = FAILED among the pending
\* files, no row with cover_downloaded = NO_URL, ERROR or TIMEOUT among the
\* pending covers.
C22_FailedIsTerminal ==
    [][/\ (fd_pc = "idle" /\ fd_pc' = "item") =>
            \A j \in DOMAIN pending_files' : \A i \in RowsOf(csv, pending_files'[j]) :
                csv[i].file_downloaded # "FAILED"
       /\ (cd_pc = "idle" /\ cd_pc' = "item") =>
            \A j \in DOMAIN pending_covers' : \A i \in RowsOf(csv, pending_covers'[j]) :
                csv[i].cover_downloaded \notin {"NO_URL", "ERROR", "TIMEOUT"}]_vars

\* C23: failure_count counts consecutive failures: when the loop has recorded
\* a successful item the counter is 0.
C23_SuccessResetsFailureCount ==
    [][(fd_pc = "write" /\ fd_pc' \in {"item", "done"} /\ success) =>
            failure_count' = 0]_vars

\* C24: the session the loop works with never belongs to an account the run
\* has left because its failure counter reached MAX_CONSECUTIVE_ERRORS.
C24_RotatedAwayStaysAway ==
    fd_pc \in {"item", "attempt", "read", "write"} => session \notin rotated_away

\* C25: whenever the loop is about to request a file that is not on disk, no
\* HTTP 200 answer with an HTML content type makes download_file report a
\* success, whatever content-length the answer announces.
C25_HtmlAnswerIsNeverSuccess ==
    (fd_pc = "attempt" /\ disk[filepath(CurrentBook)] = Absent) =>
        \A resp \in net :
            (resp.status_code = 200 /\ resp.html) =>
                ~download_file(disk, CurrentBook, resp).success

UniqueIds(df) == \A i, j \in DOMAIN df : df[i].id = df[j].id => i = j

\* C26: no two rows of the CSV have the same id, neither after the scraper's
\* remove_duplicates nor after a merge_with_existing of a new listing, and an
\* update_file_status or update_cover_status changes at most one row.
C26_IdsAreUnique ==
    /\ [](UniqueIds(csv))
    /\ [](csv # <<>> =>
            \A all_books \in site :
                UniqueIds(merge_with_existing(csv, remove_duplicates(all_books))))
    /\ [][(fd_pc = "write" \/ cd_pc = "write") /\ DOMAIN csv' = DOMAIN csv =>
             Cardinality({i \in DOMAIN csv : csv'[i] # csv[i]}) <= 1]_vars

\* The ids a step of a download program addresses: the item the loop of the
\* file or cover downloader is recording, the items of the batch, the argument
\* of a single-cover command.
Addressed(book_id) ==
    \/ fd_pc = "write" /\ book_id = CurrentBook
    \/ cd_pc = "write" /\ book_id = CurrentCover
    \/ bd_pc = "gather" /\ \E t \in DOMAIN tasks : tasks[t].id = book_id
    \/ AllIdle

\* C27: a step of a download program or of a status update leaves the rows of
\* the CSV in place with their ids (none added, none removed), and changes
\* only status and bookkeeping fields, and only in rows it addresses.
C27_RowsStayOnlyStatusMoves ==
    [][~Scrape =>
         /\ DOMAIN csv' = DOMAIN csv
         /\ \A i \in DOMAIN csv :
               /\ csv'[i].id = csv[i].id
               /\ csv'[i].title = csv[i].title
               /\ csv'[i] # csv[i] => Addressed(csv[i].id)]_vars

\* C28: in every state of the CSV file_downloaded is one of NO, YES, FAILED
\* and cover_downloaded is one of NO, YES, NO_URL, TIMEOUT, ERROR, in every row.
C28_StatusValuesAreEnumerated ==
    \A i \in DOMAIN csv :
        /\ csv[i].file_downloaded \in {"NO", "YES", "FAILED"}
        /\ csv[i].cover_downloaded \in {"NO", "YES", "NO_URL", "TIMEOUT", "ERROR"}

\* C28 witness: the cover downloader has recorded a success, a timeout and an
\* error in one run.
C28_Witness ==
    /\ cd_pc = "done"
    /\ \E i, j, k \in DOMAIN csv :
          /\ csv[i].cover_downloaded = "YES"
          /\ csv[j].cover_downloaded = "TIMEOUT"
          /\ csv[k].cover_downloaded = "ERROR"

\* The rows of the ids on a pending list that hold one of the given values in
\* a column.
RowsSetTo(pending, column, values) ==
    {i \in DOMAIN csv : (\E j \in DOMAIN pending : pending[j] = csv[i].id)
                         /\ csv[i][column] \in values}

\* C29: when a run has gone through its whole list, the success count plus the
\* failed count of its summary is the number of items of the list, and each
\* count is the number of rows the run has left in that state.
C29_SummaryCountsAreExact ==
    /\ (cd_pc = "done" /\ pending_covers # <<>>) =>
          /\ cd_success_count + cd_failed_count = Len(pending_covers)
          /\ cd_success_count = Cardinality(RowsSetTo(pending_covers, "cover_downloaded", {"YES"}))
          /\ cd_failed_count = Cardinality(RowsSetTo(pending_covers, "cover_downloaded",
                                                     {"NO_URL", "TIMEOUT", "ERROR"}))
    /\ (fd_pc = "done" /\ fd_result = "completed") =>
          /\ success_count + failed_count = Len(pending_files)
          /\ success_count = Cardinality(RowsSetTo(pending_files, "file_downloaded", {"YES"}))
          /\ failed_count = Cardinality(RowsSetTo(pending_files, "file_downloaded", {"FAILED"}))

\* C30: get_available_session gives the session of the account at
\* current_account_index whenever that account logs in, a session of another
\* account only when it does not, None only when no account logs in, and
\* leaves current_account_index at the account of the session it gives; the
\* loop of the file downloader works with the session of the account at
\* current_account_index.
C30_PrefersActiveAccount ==
    /\ \A cur \in AccountIndexes : \A auth \in logins :
          LET r == get_available_session(cur, auth)
          IN  /\ auth[cur] => (r.session = cur /\ r.index = cur)
              /\ r.session # NoSession => (r.index = r.session /\ auth[r.session])
              /\ (r.session # NoSession /\ r.session # cur) => ~auth[cur]
              /\ r.session = NoSession =>
                    (r.index = cur /\ \A a \in AccountIndexes : ~auth[a])
    /\ fd_pc \in {"item", "attempt", "read", "write"} =>
          (session # NoSession /\ session = current_account_index)

\* C30 witness: a run has just started with the session of account 1, the
\* login of account 0, the active one, having failed.
C30_Witness ==
    /\ fd_pc = "item" /\ fd_pos = 1
    /\ download_count = 0 /\ failure_count = 0 /\ rotated_away = {}
    /\ session = 1 /\ current_account_index = 1

\* C31: the cookies of an authenticated session are in no file, and every
\* request of the file downloader's loop is made with the session of the
\* account at current_account_index, the one its last login gave.
C31_SessionNeverPersisted ==
    /\ authenticated_cookies = NoSession
    /\ fd_pc = "attempt" => (session # NoSession /\ session = current_account_index)

\* C32: at the top of an item the loop calls rotate_account exactly when
\* download_count >= ROTATION_INTERVAL or failure_count >= MAX_CONSECUTIVE_ERRORS,
\* and right after the call both counters are 0; otherwise the step leaves
\* session, account and counters alone; and no step inside an item (an
\* attempt, the read and the write of the update) changes session or account.
C32_RotationOnlyBetweenItems ==
    [][/\ (fd_pc = "item" /\ fd_pc' # "idle") =>
            IF download_count >= ROTATION_INTERVAL \/ failure_count >= MAX_CONSECUTIVE_ERRORS
            THEN /\ download_count' = 0 /\ failure_count' = 0
                 /\ session' \in {NoSession, current_account_index'}
                 /\ (session' = NoSession) = (fd_pc' = "done")
            ELSE /\ download_count' = download_count /\ failure_count' = failure_count
                 /\ session' = session /\ current_account_index' = current_account_index
                 /\ fd_pc' = "attempt"
       /\ (fd_pc \in {"attempt", "read", "write"} /\ fd_pc' # "idle") =>
            (session' = session /\ current_account_index' = current_account_index)]_vars

\* C32 witness: the second item is being requested after a rotation that
\* followed the first item's success.
C32_Witness ==
    /\ fd_pc = "attempt" /\ fd_pos = 2 /\ attempt = 1
    /\ success_count = 1 /\ download_count = 0 /\ failure_count = 0

\* C33: when the loop of the file downloader records an item as succeeded,
\* the item's row gets file_downloaded = YES and, in download_account, the
\* email of the account whose session the item's attempts were made with.
C33_SuccessCreditedToSessionAccount ==
    [][(fd_pc = "write" /\ fd_pc' \in {"item", "done"} /\ success
            /\ RowsOf(fd_df, CurrentBook) # {}) =>
         \A i \in RowsOf(csv', CurrentBook) :
             /\ csv'[i].file_downloaded = "YES"
             /\ csv'[i].download_account = ZLIBRARY_ACCOUNTS[session].email]_vars

\* C33 witness: one run has recorded a success for each of the two accounts,
\* the second after a rotation.
C33_Witness ==
    /\ fd_pc \in {"item", "done"}
    /\ \E i, j \in DOMAIN csv :
          /\ csv[i].file_downloaded = "YES"
          /\ csv[i].download_account = ZLIBRARY_ACCOUNTS[0].email
          /\ csv[j].file_downloaded = "YES"
          /\ csv[j].download_account = ZLIBRARY_ACCOUNTS[1].email

\* C34: two different items never have the same target path: the file
\* downloader's loop finds no item's file already there because of another
\* item of its list, and the batch never has two tasks of different items
\* downloading to one path.
C34_DistinctItemsDistinctPaths ==
    /\ (fd_pc \in {"read", "write"} /\ status = "ALREADY_EXISTS") =>
          ~\E j \in 1..(fd_pos - 1) :
               /\ pending_files[j] # CurrentBook
               /\ filepath(pending_files[j]) = filepath(CurrentBook)
    /\ \A t, u \in Running :
          (tasks[t].id # tasks[u].id /\ download_type = "file") =>
              get_file_path(tasks[t].id) # get_file_path(tasks[u].id)

\* C35: when the loop of the file downloader has recorded an item, the item's
\* row has an empty download_error if it was recorded YES, and the reason of
\* the last failed attempt if it was recorded FAILED.
C35_ErrorAgreesWithStatus ==
    [][(fd_pc = "write" /\ fd_pc' \in {"item", "done"}
            /\ RowsOf(fd_df, CurrentBook) # {}) =>
         \A i \in RowsOf(csv', CurrentBook) :
             /\ csv'[i].file_downloaded = "YES" => csv'[i].download_error = ""
             /\ csv'[i].file_downloaded = "FAILED" =>
                   (status # "" /\ csv'[i].download_error = status)]_vars

\* C36: a row has download_status = PENDING only while its file is not
\* downloaded.
C36_PendingOnlyWhileNotDownloaded ==
    \A i \in DOMAIN csv :
        csv[i].download_status = "PENDING" => csv[i].file_downloaded # "YES"

\* C37: in run_complete_process the phases run in the order metadata
\* scraping, cover download, file download: the cover phase starts only after
\* the scraping returned True and the file phase only after the cover phase
\* returned; after a failed prerequisites check or a failed scraping the
\* process is over with no download phase started and no downloader loop
\* running; and a process that ends after a cover phase that returned False
\* has run its file phase.
C37_PhasesInOrder ==
    /\ [](stats.scraping.started => returned.prerequisites = "True")
    /\ [](stats.covers.started =>
            stats.scraping.completed /\ returned.scraping = "True")
    /\ [](stats.files.started => stats.covers.started /\ returned.covers # "")
    /\ []((returned.prerequisites = "False" \/ returned.scraping = "False") =>
            /\ rcp_pc = "done"
            /\ ~stats.covers.started /\ ~stats.files.started
            /\ cd_pc = "idle" /\ fd_pc = "idle")
    /\ []((rcp_pc = "done" /\ returned.covers = "False") =>
            stats.files.started /\ returned.files # "")
    /\ [][/\ (rcp_pc # "idle" /\ cd_pc = "idle" /\ cd_pc' # "idle") =>
               (rcp_pc = "covers" /\ returned.scraping = "True")
          /\ (rcp_pc # "idle" /\ fd_pc = "idle" /\ fd_pc' # "idle") =>
               (rcp_pc = "files" /\ returned.covers # "")]_vars

\* A complete process has ended whose cover phase returned False and whose
\* file phase downloaded a file.
C37_Witness ==
    /\ rcp_pc = "done"
    /\ returned.covers = "False"
    /\ returned.files = "True"
    /\ \E i \in DOMAIN csv : csv[i].file_downloaded = "YES"

\* C38: whatever the logins do, rotate_account asks the accounts in cyclic
\* order starting with the one after the current account, each at most once,
\* stops at the first that authenticates and makes it the current account;
\* when none authenticates it has asked every account, returns no session
\* and current_account_index is the value it was before the call.  The loop
\* of the file downloader takes over exactly that session and index.
C38_RotateIsCyclicOnce ==
    /\ [](\A auth \in logins :
            LET r == rotate_account(current_account_index, auth)
                n == Len(r.tried)
            IN  /\ n \in 1..NumAccounts
                /\ \A k \in 1..n :
                     r.tried[k] = (current_account_index + k) % NumAccounts
                /\ \A k \in 1..(n - 1) : ~auth[r.tried[k]]
                /\ IF \E a \in AccountIndexes : auth[a]
                   THEN /\ auth[r.tried[n]]
                        /\ r.session = r.tried[n] /\ r.index = r.tried[n]
                   ELSE /\ n = NumAccounts
                        /\ r.session = NoSession
                        /\ r.index = current_account_index)
    /\ [][(/\ fd_pc = "item" /\ fd_pc' # "idle"
           /\ (download_count >= ROTATION_INTERVAL
                  \/ failure_count >= MAX_CONSECUTIVE_ERRORS)) =>
            /\ \E auth \in logins :
                  /\ session' = rotate_account(current_account_index, auth).session
                  /\ current_account_index' =
                        rotate_account(current_account_index, auth).index
            /\ (session' = NoSession) =>
                  (current_account_index' = current_account_index)]_vars

\* A rotation from the second account found no account that logs in: the run
\* stopped with the second account still the current one.
C38_Witness ==
    /\ fd_pc = "done" /\ fd_result = "stopped"
    /\ session = NoSession
    /\ current_account_index = 1

\* The threads that are scraping: past line 94 and not yet past line 163.
Scraping == {t \in ThreadIds : threads[t].pc = "running"}

\* C39: in web mode scraping_status.is_running is true while a thread is
\* scraping, also when the scrapes of several POST /scrape overlap, and
\* current_page and books_found are then the page and the number of books
\* of one of the scrapes.
C39_StatusDescribesOneScrape ==
    Scraping # {} =>
        /\ scraping_status.is_running
        /\ \E t \in Scraping :
             /\ scraping_status.current_page = threads[t].page
             /\ scraping_status.books_found =
                    Len(BooksUpTo(threads[t].listing, threads[t].page))

====
